---- MODULE Spec2Model ----
(***************************************************************************)
(* Model of go-app/main.go: an in-memory patient Store guarded by one      *)
(* mutex, and the HTTP handlers that expose it.                            *)
(*                                                                         *)
(* Go strings on which the code does character work (TrimSpace, ParseInt,  *)
(* TrimSuffix) are sequences of one-character strings.  Slices are slice   *)
(* headers (arr, len, cap) over a heap of backing arrays, so that append's *)
(* in-place writes and copy's fresh arrays are told apart.                 *)
(***************************************************************************)
EXTENDS Integers, Sequences, FiniteSets, TLC

VARIABLES heap, users, nextID, mu, req, resp, issued, deleted, held, snapshot, procs

vars == <<heap, users, nextID, mu, req, resp, issued, deleted, held, snapshot, procs>>

(***************************************************************************)
(* Bounds of the model.                                                    *)
(***************************************************************************)
\* Create is offered while the id it would assign is at most MaxID.
MaxID == 3
\* Number of backing-array addresses of the modelled heap.
NumAddrs == 4
\* Number of goroutines calling the store concurrently.
NumProcs == 2
\* Concurrent Create calls are offered while the ids they would get are at most MaxConcID.
MaxConcID == 4

Addrs == 1..NumAddrs

(***************************************************************************)
(* Strings.                                                                *)
(***************************************************************************)
Empty == <<>>
SP == <<" ">>
X == <<"x">>

\* unicode.IsSpace on the characters the model uses
IsSpace(c) == c \in {" ", "\t", "\n", "\r"}

RECURSIVE TrimLeft(_)
TrimLeft(s) == IF s # <<>> /\ IsSpace(Head(s)) THEN TrimLeft(Tail(s)) ELSE s

RECURSIVE TrimRight(_)
TrimRight(s) ==
    IF s # <<>> /\ IsSpace(s[Len(s)]) THEN TrimRight(SubSeq(s, 1, Len(s) - 1)) ELSE s

\* strings.TrimSpace
TrimSpace(s) == TrimRight(TrimLeft(s))

\* strings.TrimSuffix(s, "/"): removes one trailing slash, if any
TrimSuffixSlash(s) ==
    IF s # <<>> /\ s[Len(s)] = "/" THEN SubSeq(s, 1, Len(s) - 1) ELSE s

(***************************************************************************)
(* strconv.ParseInt(s, 10, 64).  The range test compares digit strings, so *)
(* that no value beyond TLC's integers is ever computed.                   *)
(***************************************************************************)
Digits == <<"0", "1", "2", "3", "4", "5", "6", "7", "8", "9">>

IsDigit(c) == \E d \in 1..10 : Digits[d] = c

DigitVal(c) == (CHOOSE d \in 1..10 : Digits[d] = c) - 1

RECURSIVE StripZeros(_)
StripZeros(s) == IF Len(s) > 1 /\ Head(s) = "0" THEN StripZeros(Tail(s)) ELSE s

\* 2^63 - 1 and 2^63 as digit strings
MaxInt64Digits ==
    <<"9","2","2","3","3","7","2","0","3","6","8","5","4","7","7","5","8","0","7">>
MinInt64Digits ==
    <<"9","2","2","3","3","7","2","0","3","6","8","5","4","7","7","5","8","0","8">>

\* a <= b for digit strings of the same length
RECURSIVE DigitsLeq(_, _)
DigitsLeq(a, b) ==
    IF a = <<>> THEN TRUE
    ELSE IF DigitVal(Head(a)) < DigitVal(Head(b)) THEN TRUE
    ELSE IF DigitVal(Head(a)) > DigitVal(Head(b)) THEN FALSE
    ELSE DigitsLeq(Tail(a), Tail(b))

\* the magnitude d (no leading zeros) is at most the limit lim
InRange(d, lim) == Len(d) < Len(lim) \/ (Len(d) = Len(lim) /\ DigitsLeq(d, lim))

RECURSIVE DigitsValue(_, _)
DigitsValue(s, acc) ==
    IF s = <<>> THEN acc ELSE DigitsValue(Tail(s), 10 * acc + DigitVal(Head(s)))

\* mutant: a failed conversion is not reported, the id reads as 0
ParseInt_ErrorDropped(s) ==
    IF s = <<>> THEN [err |-> TRUE, val |-> 0]
    ELSE IF \E i \in 1..Len(s) : ~IsDigit(s[i]) THEN [err |-> FALSE, val |-> 0]
    ELSE IF ~InRange(StripZeros(s), MaxInt64Digits) THEN [err |-> FALSE, val |-> 0]
    ELSE [err |-> FALSE, val |-> DigitsValue(StripZeros(s), 0)]

ParseInt(s) ==
    IF s = <<>> THEN [err |-> TRUE, val |-> 0]
    ELSE LET neg == Head(s) = "-"
             body == IF Head(s) \in {"+", "-"} THEN Tail(s) ELSE s
         IN  IF body = <<>> \/ \E i \in 1..Len(body) : ~IsDigit(body[i])
             THEN [err |-> TRUE, val |-> 0]
             ELSE LET d == StripZeros(body)
                  IN  IF ~InRange(d, IF neg THEN MinInt64Digits ELSE MaxInt64Digits)
                      THEN [err |-> TRUE, val |-> 0]
                      ELSE [err |-> FALSE,
                            val |-> IF neg THEN 0 - DigitsValue(d, 0)
                                    ELSE DigitsValue(d, 0)]

(***************************************************************************)
(* Patient and the response envelopes.                                     *)
(***************************************************************************)
Patient(id, fullname, sex, birthdate, address) ==
    [ID |-> id, Fullname |-> fullname, Sex |-> sex,
     Birthdate |-> birthdate, Address |-> address]

ZeroPatient == Patient(0, Empty, Empty, Empty, Empty)

\* the field of p that the JSON key k names
FieldIn(p, k) ==
    CASE k = "fullname" -> p.Fullname
      [] k = "sex" -> p.Sex
      [] k = "birthdate" -> p.Birthdate
      [] k = "address" -> p.Address

\* p with that field set to v
WithField(p, k, v) ==
    CASE k = "fullname" -> [p EXCEPT !.Fullname = v]
      [] k = "sex" -> [p EXCEPT !.Sex = v]
      [] k = "birthdate" -> [p EXCEPT !.Birthdate = v]
      [] k = "address" -> [p EXCEPT !.Address = v]

Alice == Patient(0, <<"A","l","i","c","e"," ","E","x","a","m","p","l","e">>, <<"F">>,
                 <<"1","9","9","0","-","0","1","-","0","1">>,
                 <<"1","2","3"," ","A"," ","S","t">>)

Bob == Patient(0, <<"B","o","b"," ","E","x","a","m","p","l","e">>, <<"M">>,
               <<"1","9","8","8","-","0","5","-","0","5">>,
               <<"4","5","6"," ","B"," ","A","v","e">>)

\* Response{Code, Status, Data}; Data is a Patient or a slice of Patient
Response(code, status, kind, data) ==
    [Code |-> code, Status |-> status, kind |-> kind, Data |-> data]

\* the zero Response{}
ZeroResponse == Response(0, "", "nil", <<>>)

(***************************************************************************)
(* Slices and the heap of backing arrays.                                  *)
(***************************************************************************)
Slice(arr, len, cap) == [arr |-> arr, len |-> len, cap |-> cap]

\* a slice of no capacity points at no array
NilSlice == Slice(0, 0, 0)

\* the elements a slice shows
Contents(h, sl) == IF sl.len = 0 THEN <<>> ELSE SubSeq(h[sl.arr], 1, sl.len)

\* the garbage collector frees the arrays nothing refers to
Collect(h, roots) == [a \in Addrs |-> IF a \in roots THEN h[a] ELSE <<>>]

\* the allocator hands out an array no live slice refers to
Alloc(h, roots) == CHOOSE a \in Addrs : a \notin roots /\ \A b \in Addrs : (b \notin roots) => a <= b

\* runtime growslice for a slice that is full: 0 -> 1, then doubling
GrowCap(cap, need) ==
    LET dbl == IF cap = 0 THEN 1 ELSE 2 * cap IN IF need > dbl THEN need ELSE dbl

\* make([]Patient, n): a fresh zeroed array
Make(h, n, roots) ==
    IF n = 0 THEN [heap |-> h, slice |-> NilSlice]
    ELSE LET a == Alloc(h, roots)
         IN  [heap |-> [h EXCEPT ![a] = [i \in 1..n |-> ZeroPatient]],
              slice |-> Slice(a, n, n)]

\* append(sl, elems...): in place when the capacity allows, else into a grown array.
\* elems are read before anything is written (memmove), so they may overlap sl's array.
GoAppend(h, sl, elems, roots) ==
    LET n == sl.len + Len(elems)
    IN  IF n <= sl.cap
        THEN [heap |-> IF sl.cap = 0 THEN h
                       ELSE [h EXCEPT ![sl.arr] =
                               [i \in 1..sl.cap |->
                                  IF i > sl.len /\ i <= n THEN elems[i - sl.len]
                                  ELSE h[sl.arr][i]]],
              slice |-> Slice(sl.arr, n, sl.cap)]
        ELSE LET a == Alloc(h, roots)
                 c == GrowCap(sl.cap, n)
                 old == Contents(h, sl)
             IN  [heap |-> [h EXCEPT ![a] =
                              [i \in 1..c |->
                                 IF i <= sl.len THEN old[i]
                                 ELSE IF i <= n THEN elems[i - sl.len]
                                 ELSE ZeroPatient]],
                  slice |-> Slice(a, n, c)]

(***************************************************************************)
(* The Store.  A store value S is [heap, users, nextID]; every operation   *)
(* runs between s.mu.Lock() and the deferred s.mu.Unlock().  live is the   *)
(* set of arrays the callers still hold.                                   *)
(***************************************************************************)
StoreOf(h, u, n) == [heap |-> h, users |-> u, nextID |-> n]

NewStore == StoreOf([a \in Addrs |-> <<>>], NilSlice, 1)

Roots(S, live) == (live \cup {S.users.arr}) \ {0}

Users(S) == Contents(S.heap, S.users)

\* first index whose ID is id, 0 if none: the scan of Get, Update and Delete
Find(S, id) ==
    LET us == Users(S)
        hits == {i \in 1..Len(us) : us[i].ID = id}
    IN  IF hits = {} THEN 0 ELSE CHOOSE i \in hits : \A j \in hits : i <= j

\* mutant: the store's own slice is returned instead of a copy
List_NoCopy(S, live) ==
    [store |-> S, resp |-> Response(200, "Ok", "slice", S.users)]

List(S, live) ==
    LET m == Make(S.heap, S.users.len, Roots(S, live))
        out == m.slice
        h2 == IF out.len = 0 THEN m.heap
              ELSE [m.heap EXCEPT ![out.arr] = Users(S)]
    IN  [store |-> StoreOf(h2, S.users, S.nextID),
         resp |-> Response(200, "Ok", "slice", out)]

Get(S, id) ==
    LET i == Find(S, id)
    IN  IF i # 0
        THEN [store |-> S, resp |-> Response(200, "Ok", "patient", Users(S)[i]), ok |-> TRUE]
        ELSE [store |-> S, resp |-> ZeroResponse, ok |-> FALSE]

\* mutant: the new id is the position of the new record, so a freed id is handed out again
Create_IdFromLength(S, p0, live) ==
    LET p == [p0 EXCEPT !.ID = S.users.len + 1]
        a == GoAppend(S.heap, S.users, <<p>>, Roots(S, live))
    IN  [store |-> StoreOf(a.heap, a.slice, S.nextID + 1),
         resp |-> Response(201, "Created", "patient", p)]

Create(S, p0, live) ==
    LET p == [p0 EXCEPT !.ID = S.nextID]
        a == GoAppend(S.heap, S.users, <<p>>, Roots(S, live))
    IN  [store |-> StoreOf(a.heap, a.slice, S.nextID + 1),
         resp |-> Response(201, "Created", "patient", p)]

\* mutant: the fields are assigned without the emptiness guards
Apply_Unguarded(old, upd) ==
    [old EXCEPT !.Fullname = upd.Fullname, !.Sex = upd.Sex,
                !.Birthdate = upd.Birthdate, !.Address = upd.Address]

\* mutant: the id sent in the body is assigned as well
Apply_WithID(old, upd) ==
    [old EXCEPT !.ID = IF upd.ID # 0 THEN upd.ID ELSE @,
                !.Fullname = IF upd.Fullname # Empty THEN upd.Fullname ELSE @,
                !.Sex = IF upd.Sex # Empty THEN upd.Sex ELSE @,
                !.Birthdate = IF upd.Birthdate # Empty THEN upd.Birthdate ELSE @,
                !.Address = IF upd.Address # Empty THEN upd.Address ELSE @]

\* the four guarded assignments of Update
Apply(old, upd) ==
    [old EXCEPT !.Fullname = IF upd.Fullname # Empty THEN upd.Fullname ELSE @,
                !.Sex = IF upd.Sex # Empty THEN upd.Sex ELSE @,
                !.Birthdate = IF upd.Birthdate # Empty THEN upd.Birthdate ELSE @,
                !.Address = IF upd.Address # Empty THEN upd.Address ELSE @]

Update(S, id, upd) ==
    LET i == Find(S, id)
    IN  IF i # 0
        THEN LET h2 == [S.heap EXCEPT ![S.users.arr][i] = Apply(@, upd)]
             IN  [store |-> StoreOf(h2, S.users, S.nextID),
                  resp |-> Response(200, "Ok", "patient", h2[S.users.arr][i]),
                  ok |-> TRUE]
        ELSE [store |-> S, resp |-> ZeroResponse, ok |-> FALSE]

\* mutant: the record is removed by moving the last record into its place
Delete_SwapLast(S, id, live) ==
    LET i == Find(S, id)
    IN  IF i # 0
        THEN LET n == S.users.len
                 h2 == [S.heap EXCEPT ![S.users.arr][i] = S.heap[S.users.arr][n]]
             IN  [store |-> StoreOf(h2, Slice(S.users.arr, n - 1, S.users.cap), S.nextID),
                  ok |-> TRUE]
        ELSE [store |-> S, ok |-> FALSE]

\* mutant: the scan's result is not reported, Delete always returns true
Delete_AlwaysTrue(S, id, live) ==
    LET i == Find(S, id)
    IN  IF i # 0
        THEN LET us == Users(S)
                 a == GoAppend(S.heap, Slice(S.users.arr, i - 1, S.users.cap),
                               SubSeq(us, i + 1, Len(us)), Roots(S, live))
             IN  [store |-> StoreOf(a.heap, a.slice, S.nextID), ok |-> TRUE]
        ELSE [store |-> S, ok |-> TRUE]

\* s.users = append(s.users[:i], s.users[i+1:]...)
Delete(S, id, live) ==
    LET i == Find(S, id)
    IN  IF i # 0
        THEN LET us == Users(S)
                 a == GoAppend(S.heap, Slice(S.users.arr, i - 1, S.users.cap),
                             SubSeq(us, i + 1, Len(us)), Roots(S, live))
             IN  [store |-> StoreOf(a.heap, a.slice, S.nextID), ok |-> TRUE]
        ELSE [store |-> S, ok |-> FALSE]

(***************************************************************************)
(* The HTTP layer.  A response on the wire is                              *)
(*   [status, cors, ctype, kind, code, label, dkind, data, error]          *)
(* kind "response" is a Response envelope, "error" a ResponseError         *)
(* envelope, "none" an empty body, "raw" bytes that are no envelope.       *)
(***************************************************************************)
Wire(status, ctype, kind, code, label, dkind, data, error) ==
    [status |-> status, cors |-> FALSE, ctype |-> ctype, kind |-> kind, code |-> code,
     label |-> label, dkind |-> dkind, data |-> data, error |-> error]

NoWire == Wire(0, "", "none", 0, "", "none", <<>>, "")

\* http.StatusText
StatusText(code) ==
    CASE code = 100 -> "Continue"
      [] code = 101 -> "Switching Protocols"
      [] code = 102 -> "Processing"
      [] code = 103 -> "Early Hints"
      [] code = 200 -> "OK"
      [] code = 201 -> "Created"
      [] code = 202 -> "Accepted"
      [] code = 203 -> "Non-Authoritative Information"
      [] code = 204 -> "No Content"
      [] code = 205 -> "Reset Content"
      [] code = 206 -> "Partial Content"
      [] code = 207 -> "Multi-Status"
      [] code = 208 -> "Already Reported"
      [] code = 226 -> "IM Used"
      [] code = 300 -> "Multiple Choices"
      [] code = 301 -> "Moved Permanently"
      [] code = 302 -> "Found"
      [] code = 303 -> "See Other"
      [] code = 304 -> "Not Modified"
      [] code = 305 -> "Use Proxy"
      [] code = 307 -> "Temporary Redirect"
      [] code = 308 -> "Permanent Redirect"
      [] code = 400 -> "Bad Request"
      [] code = 401 -> "Unauthorized"
      [] code = 402 -> "Payment Required"
      [] code = 403 -> "Forbidden"
      [] code = 404 -> "Not Found"
      [] code = 405 -> "Method Not Allowed"
      [] code = 406 -> "Not Acceptable"
      [] code = 407 -> "Proxy Authentication Required"
      [] code = 408 -> "Request Timeout"
      [] code = 409 -> "Conflict"
      [] code = 410 -> "Gone"
      [] code = 411 -> "Length Required"
      [] code = 412 -> "Precondition Failed"
      [] code = 413 -> "Request Entity Too Large"
      [] code = 414 -> "Request URI Too Long"
      [] code = 415 -> "Unsupported Media Type"
      [] code = 416 -> "Requested Range Not Satisfiable"
      [] code = 417 -> "Expectation Failed"
      [] code = 418 -> "I'm a teapot"
      [] code = 421 -> "Misdirected Request"
      [] code = 422 -> "Unprocessable Entity"
      [] code = 423 -> "Locked"
      [] code = 424 -> "Failed Dependency"
      [] code = 425 -> "Too Early"
      [] code = 426 -> "Upgrade Required"
      [] code = 428 -> "Precondition Required"
      [] code = 429 -> "Too Many Requests"
      [] code = 431 -> "Request Header Fields Too Large"
      [] code = 451 -> "Unavailable For Legal Reasons"
      [] code = 500 -> "Internal Server Error"
      [] code = 501 -> "Not Implemented"
      [] code = 502 -> "Bad Gateway"
      [] code = 503 -> "Service Unavailable"
      [] code = 504 -> "Gateway Timeout"
      [] code = 505 -> "HTTP Version Not Supported"
      [] code = 506 -> "Variant Also Negotiates"
      [] code = 507 -> "Insufficient Storage"
      [] code = 508 -> "Loop Detected"
      [] code = 510 -> "Not Extended"
      [] code = 511 -> "Network Authentication Required"
      [] OTHER -> ""

ResponseError(code, status, error) == [Code |-> code, Status |-> status, Error |-> error]

newResponseError(code, msg) ==
    LET status == StatusText(code)
    IN  ResponseError(code, IF status = "" THEN "Error" ELSE status, msg)

\* writeJSON(w, code, v) for v a ResponseError
writeJSONError(code, e) ==
    Wire(code, "application/json", "error", e.Code, e.Status, "none", <<>>, e.Error)

\* mutant: w.WriteHeader is not called, the status line is the default 200
writeJSON_NoWriteHeader(h, code, v) ==
    Wire(200, "application/json", "response", v.Code, v.Status,
         IF v.kind = "slice" THEN "array" ELSE v.kind,
         CASE v.kind = "slice" -> Contents(h, v.Data)
           [] v.kind = "patient" -> <<v.Data>>
           [] OTHER -> <<>>,
         "")

\* writeJSON(w, code, v) for v a Response; h is the heap a slice in Data is read from
writeJSON(h, code, v) ==
    Wire(code, "application/json", "response", v.Code, v.Status,
         IF v.kind = "slice" THEN "array" ELSE v.kind,
         CASE v.kind = "slice" -> Contents(h, v.Data)
           [] v.kind = "patient" -> <<v.Data>>
           [] OTHER -> <<>>,
         "")

writeError(respErr) ==
    LET c == IF respErr.Code = 0 THEN 500 ELSE respErr.Code
        st == IF respErr.Status = "" THEN StatusText(c) ELSE respErr.Status
    IN  writeJSONError(c, ResponseError(c, st, respErr.Error))

(***************************************************************************)
(* Requests.  body is what the client sent: unparsable, or a JSON object   *)
(* with the keys in present; rest is the path after "/patients/".          *)
(***************************************************************************)
Body(valid, present, obj) == [valid |-> valid, present |-> present, obj |-> obj]

Request(method, route, rest, body) ==
    [method |-> method, route |-> route, rest |-> rest, body |-> body]

\* json.NewDecoder(r.Body).Decode(&p): absent keys leave the zero value
Decode(body) ==
    [err |-> ~body.valid,
     val |-> IF ~body.valid THEN ZeroPatient
             ELSE Patient(IF "id" \in body.present THEN body.obj.ID ELSE 0,
                          IF "fullname" \in body.present THEN body.obj.Fullname ELSE Empty,
                          IF "sex" \in body.present THEN body.obj.Sex ELSE Empty,
                          IF "birthdate" \in body.present THEN body.obj.Birthdate ELSE Empty,
                          IF "address" \in body.present THEN body.obj.Address ELSE Empty)]

\* a handler's outcome: the store after it, the response, the id Create assigned (0 when
\* Create was not called) and the id Delete removed (0 when Delete did not return true)
Outcome(S, w, created, removed) ==
    [store |-> S, wire |-> w, created |-> created, removed |-> removed]

\* mutant: the fields are tested without trimming
MissingRequired_Untrimmed(p) ==
    p.Fullname = Empty \/ p.Sex = Empty \/ p.Birthdate = Empty \/ p.Address = Empty

\* the condition under which POST /patients is refused
MissingRequired(p) ==
    \/ TrimSpace(p.Fullname) = Empty
    \/ TrimSpace(p.Sex) = Empty
    \/ TrimSpace(p.Birthdate) = Empty
    \/ TrimSpace(p.Address) = Empty

\* mutant: the fields are tested without trimming
NothingToUpdate_Untrimmed(upd) ==
    upd.Fullname = Empty /\ upd.Sex = Empty /\ upd.Birthdate = Empty /\ upd.Address = Empty

\* the condition under which PUT /patients/{id} is refused
NothingToUpdate(upd) ==
    /\ TrimSpace(upd.Fullname) = Empty
    /\ TrimSpace(upd.Sex) = Empty
    /\ TrimSpace(upd.Birthdate) = Empty
    /\ TrimSpace(upd.Address) = Empty

\* mux.HandleFunc("/patients", ...)
patientsHandler(S, r) ==
    CASE r.method = "GET" ->
           LET l == List(S, {})
           IN  Outcome(l.store, writeJSON(l.store.heap, 200, l.resp), 0, 0)
      [] r.method = "POST" ->
           LET d == Decode(r.body)
           IN  IF d.err
               THEN Outcome(S, writeError(newResponseError(400, "invalid JSON body")), 0, 0)
               ELSE IF MissingRequired(d.val)
               THEN Outcome(S, writeError(newResponseError(400,
                        "fullname, sex, birthdate and address are required")), 0, 0)
               ELSE LET c == Create(S, d.val, {})
                    IN  Outcome(c.store, writeJSON(c.store.heap, 201, c.resp), c.resp.Data.ID, 0)
      [] OTHER -> Outcome(S, writeError(newResponseError(405, "method not allowed")), 0, 0)

\* mux.HandleFunc("/patients/", ...)
patientHandler(S, r) ==
    LET idStr == TrimSuffixSlash(r.rest)
        parsed == ParseInt(idStr)
        id == parsed.val
    IN  IF parsed.err \/ idStr = Empty
        THEN Outcome(S, writeError(newResponseError(400, "invalid id")), 0, 0)
        ELSE CASE r.method = "GET" ->
                    LET g == Get(S, id)
                    IN  IF ~g.ok
                        THEN Outcome(S, writeError(newResponseError(404, "patient not found")), 0, 0)
                        ELSE Outcome(g.store, writeJSON(g.store.heap, 200, g.resp), 0, 0)
               [] r.method = "PUT" ->
                    LET d == Decode(r.body)
                    IN  IF d.err
                        THEN Outcome(S, writeError(newResponseError(400, "invalid JSON body")), 0, 0)
                        ELSE IF NothingToUpdate(d.val)
                        THEN Outcome(S, writeError(newResponseError(400,
                                 "at least one field required to update")), 0, 0)
                        ELSE LET u == Update(S, id, d.val)
                             IN  IF ~u.ok
                                 THEN Outcome(S, writeError(newResponseError(404,
                                          "patient not found")), 0, 0)
                                 ELSE Outcome(u.store, writeJSON(u.store.heap, 200, u.resp), 0, 0)
               [] r.method = "DELETE" ->
                    LET x == Delete(S, id, {})
                    IN  IF ~x.ok
                        THEN Outcome(S, writeError(newResponseError(404, "patient not found")), 0, 0)
                        ELSE Outcome(x.store, Wire(204, "", "none", 0, "", "none", <<>>, ""), 0, id)
               [] OTHER -> Outcome(S, writeError(newResponseError(405, "method not allowed")), 0, 0)

\* mux.HandleFunc("/openapi.yaml", ...); fileOK is whether os.ReadFile succeeded
openapiHandler(S, fileOK) ==
    IF ~fileOK
    THEN Outcome(S, writeError(newResponseError(404, "openapi spec not found")), 0, 0)
    ELSE Outcome(S, Wire(200, "application/x-yaml", "raw", 0, "", "none", <<>>, ""), 0, 0)

\* mux.HandleFunc("/documentations", ...)
docsHandler(S) ==
    Outcome(S, Wire(200, "text/html; charset=utf-8", "raw", 0, "", "none", <<>>, ""), 0, 0)

\* the ServeMux: the four registered patterns, else http.NotFound
mux(S, r, fileOK) ==
    CASE r.route = "/patients" -> patientsHandler(S, r)
      [] r.route = "/patients/" -> patientHandler(S, r)
      [] r.route = "/openapi.yaml" -> openapiHandler(S, fileOK)
      [] r.route = "/documentations" -> docsHandler(S)
      [] OTHER -> Outcome(S, Wire(404, "text/plain; charset=utf-8", "raw", 0, "", "none",
                                  <<>>, ""), 0, 0)

\* mutant: the pre-flight request is passed on to the router like any other
corsMiddleware_NoPreflight(S, r, fileOK) ==
    LET o == mux(S, r, fileOK)
    IN  Outcome(o.store, [o.wire EXCEPT !.cors = TRUE], o.created, o.removed)

corsMiddleware(S, r, fileOK) ==
    IF r.method = "OPTIONS"
    THEN Outcome(S, [Wire(204, "", "none", 0, "", "none", <<>>, "") EXCEPT !.cors = TRUE], 0, 0)
    ELSE LET o == mux(S, r, fileOK)
         IN  Outcome(o.store, [o.wire EXCEPT !.cors = TRUE], o.created, o.removed)

(***************************************************************************)
(* The server: main seeds the store, then serves requests one at a time.   *)
(***************************************************************************)
\* the store is S with the arrays nobody holds freed
Settled(S, live) == StoreOf(Collect(S.heap, Roots(S, live)), S.users, S.nextID)

\* main: NewStore and the two seeding Creates
Seeded == Create(Create(NewStore, Alice, {}).store, Bob, {}).store

Cur == StoreOf(heap, users, nextID)

NoRequest == Request("", "", Empty, Body(FALSE, {}, ZeroPatient))

NoBody == Body(FALSE, {}, ZeroPatient)

\* the decimal digits of the ids the model can address
IdRests == {<<Digits[n + 1]>> : n \in 1..(MaxID + 1)}

\* paths after "/patients/" that reach the item handler
Rests ==
    IdRests \cup
    {Empty, <<"a","b","c">>, <<"2","/">>, <<"+","1">>, <<"-","1">>, MinInt64Digits}

AllX == Patient(7, X, X, X, X)

\* bodies sent to POST /patients
PostBodies ==
    {Body(FALSE, {}, ZeroPatient),
     Body(TRUE, {"id", "fullname", "sex", "birthdate", "address"}, AllX),
     Body(TRUE, {"fullname", "sex", "birthdate", "address"}, [AllX EXCEPT !.ID = 0]),
     Body(TRUE, {"fullname", "sex", "birthdate", "address"}, Patient(0, Empty, X, X, X)),
     Body(TRUE, {"fullname", "birthdate", "address"}, Patient(0, X, Empty, X, X)),
     Body(TRUE, {"fullname", "sex", "birthdate", "address"}, Patient(0, X, X, SP, X)),
     Body(TRUE, {"fullname", "sex", "birthdate"}, Patient(0, X, X, X, Empty))}

\* bodies sent to PUT /patients/{id}
PutBodies ==
    {Body(FALSE, {}, ZeroPatient),
     Body(TRUE, {}, ZeroPatient),
     Body(TRUE, {"fullname", "sex", "birthdate", "address"}, Patient(0, SP, Empty, SP, SP)),
     Body(TRUE, {"id", "fullname"}, Patient(9, X, Empty, Empty, Empty)),
     Body(TRUE, {"fullname", "sex"}, Patient(0, X, SP, Empty, Empty)),
     Body(TRUE, {"fullname", "sex", "birthdate", "address"}, Patient(0, Empty, X, X, X))}

CollectionRequests ==
    {Request(m, "/patients", Empty, NoBody) : m \in {"GET", "PATCH", "OPTIONS"}} \cup
    {Request("POST", "/patients", Empty, b) : b \in PostBodies}

ItemRequests ==
    {Request(m, "/patients/", rest, NoBody) :
        m \in {"GET", "DELETE", "PATCH", "OPTIONS"}, rest \in Rests} \cup
    {Request("PUT", "/patients/", rest, b) : rest \in Rests, b \in PutBodies}

OtherRequests ==
    {Request(m, route, Empty, NoBody) :
        m \in {"GET", "OPTIONS"}, route \in {"/openapi.yaml", "/documentations", "/"}}

Init ==
    /\ heap = Settled(Seeded, {}).heap
    /\ users = Seeded.users
    /\ nextID = Seeded.nextID
    /\ mu = 0
    /\ req = NoRequest
    /\ resp = NoWire
    /\ issued = <<1, 2>>
    /\ deleted = {}
    /\ held = NilSlice
    /\ snapshot = <<>>
    /\ procs = <<>>

\* one request, from the middleware to the response; the server model takes the next
\* request once the response has been delivered
Serve(r, fileOK) ==
    /\ mu = 0
    /\ req = NoRequest
    /\ \E o \in {corsMiddleware(Cur, r, fileOK)} :
         /\ o.created <= MaxID
         /\ \E S \in {Settled(o.store, {})} :
              /\ heap' = S.heap
              /\ users' = S.users
              /\ nextID' = S.nextID
         /\ req' = r
         /\ resp' = o.wire
         /\ issued' = IF o.created # 0 THEN Append(issued, o.created) ELSE issued
         /\ deleted' = IF o.removed # 0 THEN deleted \cup {o.removed} ELSE deleted
    /\ UNCHANGED <<mu, held, snapshot, procs>>

\* the response has been written and the handler has returned
Deliver ==
    /\ req # NoRequest
    /\ req' = NoRequest
    /\ resp' = NoWire
    /\ UNCHANGED <<heap, users, nextID, mu, issued, deleted, held, snapshot, procs>>

ServeCollection == \E r \in CollectionRequests : Serve(r, TRUE)

ServeItem == \E r \in ItemRequests : Serve(r, TRUE)

ServeOther == \E r \in OtherRequests, fileOK \in BOOLEAN : Serve(r, fileOK)

Next == ServeCollection \/ ServeItem \/ ServeOther \/ Deliver

Spec == Init /\ [][Next]_vars

(***************************************************************************)
(* A caller that keeps the slice List returned (held) while the store is   *)
(* operated on.  snapshot records what that slice showed when List         *)
(* returned.                                                               *)
(***************************************************************************)
KeptArrays == {held.arr} \ {0}

\* the partial records passed to Update
Partials == {Patient(0, X, Empty, Empty, Empty), Patient(0, Empty, SP, Empty, X)}

StoreIds == 1..MaxID

Install(S) ==
    /\ heap' = S.heap
    /\ users' = S.users
    /\ nextID' = S.nextID

KeepList ==
    /\ mu = 0
    /\ \E l \in {List(Cur, KeptArrays)} :
         /\ held' = l.resp.Data
         /\ snapshot' = Contents(l.store.heap, l.resp.Data)
         /\ Install(Settled(l.store, {l.resp.Data.arr}))
    /\ UNCHANGED <<mu, req, resp, issued, deleted, procs>>

CallCreate ==
    /\ mu = 0
    /\ nextID <= MaxID
    /\ \E c \in {Create(Cur, AllX, KeptArrays)} :
         /\ Install(Settled(c.store, KeptArrays))
         /\ issued' = Append(issued, c.resp.Data.ID)
    /\ UNCHANGED <<mu, req, resp, deleted, held, snapshot, procs>>

CallUpdate ==
    /\ mu = 0
    /\ \E id \in StoreIds, upd \in Partials :
         Install(Settled(Update(Cur, id, upd).store, KeptArrays))
    /\ UNCHANGED <<mu, req, resp, issued, deleted, held, snapshot, procs>>

CallDelete ==
    /\ mu = 0
    /\ \E id \in StoreIds :
         \E x \in {Delete(Cur, id, KeptArrays)} :
            /\ Install(Settled(x.store, KeptArrays))
            /\ deleted' = IF x.ok THEN deleted \cup {id} ELSE deleted
    /\ UNCHANGED <<mu, req, resp, issued, held, snapshot, procs>>

NextKept == KeepList \/ CallCreate \/ CallUpdate \/ CallDelete

SpecKept == Init /\ [][NextKept]_vars

(***************************************************************************)
(* Goroutines calling the store concurrently, one statement at a time.     *)
(* A goroutine is [pc, op, id, i, p, out]: its position, the operation and *)
(* id it was called with, and its locals (the scan index i, Create's p or *)
(* the record Update returns, the slice out that List or Delete's append   *)
(* has produced).  Here snapshot is the sequence left by the operations    *)
(* that have returned, each applied in one piece in the order of return.   *)
(***************************************************************************)
Procs == 1..NumProcs

Proc(pc, op, id, i, p, out) ==
    [pc |-> pc, op |-> op, id |-> id, i |-> i, p |-> p, out |-> out]

IdleProc == Proc("idle", "", 0, 0, ZeroPatient, NilSlice)

\* the ids and the partial record the concurrent callers pass
ConcIds == {1, 2}

ConcPartial == Patient(0, X, Empty, Empty, X)

InitConc ==
    /\ heap = Settled(Seeded, {}).heap
    /\ users = Seeded.users
    /\ nextID = Seeded.nextID
    /\ mu = 0
    /\ req = NoRequest
    /\ resp = NoWire
    /\ issued = <<1, 2>>
    /\ deleted = {}
    /\ held = NilSlice
    /\ snapshot = Users(Seeded)
    /\ procs = [g \in Procs |-> IdleProc]

\* the arrays the goroutines' locals refer to
LocalArrays(ps) == {ps[g].out.arr : g \in Procs} \ {0}

\* Create calls that have not yet incremented the counter
PendingCreates == Cardinality({g \in Procs : procs[g].pc \in {"lock", "c1", "c2"}
                                              /\ procs[g].op = "Create"})

\* the first statement of an operation's body
Entry(op) ==
    CASE op = "List" -> "l1"
      [] op = "Get" -> "g1"
      [] op = "Create" -> "c1"
      [] op = "Update" -> "u1"
      [] op = "Delete" -> "d1"

\* the heap after a step, with the arrays neither the store nor a local refers to freed
Swept(h, u, ps) == Collect(h, ({u.arr} \ {0}) \cup LocalArrays(ps))

\* mutant: Lock returns at once, whoever holds the mutex
CanLock_Always(m) == TRUE

\* s.mu.Lock() returns only when no goroutine holds the mutex
CanLock(m) == m = 0

\* a goroutine calls a store operation
Call(g) ==
    /\ procs[g].pc = "idle"
    /\ \E op \in {"List", "Get", "Create", "Update", "Delete"}, id \in ConcIds :
         /\ op \in {"List", "Create"} => id = 1
         /\ op = "Create" => nextID + PendingCreates <= MaxConcID
         /\ procs' = [procs EXCEPT ![g] =
                        Proc("lock", op, IF op \in {"List", "Create"} THEN 0 ELSE id,
                             0, ZeroPatient, NilSlice)]
    /\ UNCHANGED <<heap, users, nextID, mu, req, resp, issued, deleted, held, snapshot>>

\* s.mu.Lock()
Lock(g) ==
    /\ procs[g].pc = "lock"
    /\ CanLock(mu)
    /\ mu' = g
    /\ procs' = [procs EXCEPT ![g].pc = Entry(procs[g].op)]
    /\ UNCHANGED <<heap, users, nextID, req, resp, issued, deleted, held, snapshot>>

\* one statement of List: make, then copy
ListStep(g) ==
    /\ \/ /\ procs[g].pc = "l1"
          /\ \E m \in {Make(heap, users.len, ({users.arr} \ {0}) \cup LocalArrays(procs))} :
               /\ procs' = [procs EXCEPT ![g].pc = "l2", ![g].out = m.slice]
               /\ heap' = m.heap
       \/ /\ procs[g].pc = "l2"
          /\ LET out == procs[g].out
                 n == IF out.len < users.len THEN out.len ELSE users.len
             IN  heap' = IF n = 0 THEN heap
                         ELSE [heap EXCEPT ![out.arr] =
                                 [k \in 1..out.cap |->
                                    IF k <= n THEN heap[users.arr][k] ELSE @[k]]]
          /\ procs' = [procs EXCEPT ![g].pc = "unlock"]
    /\ UNCHANGED <<users, nextID, mu, req, resp, issued, deleted, held, snapshot>>

\* the scan of Get
GetStep(g) ==
    /\ procs[g].pc = "g1"
    /\ procs' = [procs EXCEPT ![g].pc = "unlock", ![g].i = Find(Cur, procs[g].id)]
    /\ UNCHANGED <<heap, users, nextID, mu, req, resp, issued, deleted, held, snapshot>>

\* one statement of Create: p.ID = s.nextID; s.nextID++; s.users = append(s.users, p)
CreateStep(g) ==
    /\ \/ /\ procs[g].pc = "c1"
          /\ procs' = [procs EXCEPT ![g].pc = "c2", ![g].p = [AllX EXCEPT !.ID = nextID]]
          /\ UNCHANGED <<heap, users, nextID>>
       \/ /\ procs[g].pc = "c2"
          /\ nextID' = nextID + 1
          /\ procs' = [procs EXCEPT ![g].pc = "c3"]
          /\ UNCHANGED <<heap, users>>
       \/ /\ procs[g].pc = "c3"
          /\ \E a \in {GoAppend(heap, users, <<procs[g].p>>,
                                ({users.arr} \ {0}) \cup LocalArrays(procs))} :
               /\ users' = a.slice
               /\ heap' = Swept(a.heap, a.slice, procs)
          /\ procs' = [procs EXCEPT ![g].pc = "unlock"]
          /\ UNCHANGED nextID
    /\ UNCHANGED <<mu, req, resp, issued, deleted, held, snapshot>>

\* the field an Update statement assigns, when the partial's field is not empty
Assign(h, u, i, k, upd) ==
    IF FieldIn(upd, k) = Empty \/ i > u.len THEN h
    ELSE [h EXCEPT ![u.arr][i] = WithField(@, k, FieldIn(upd, k))]

\* one statement of Update: the scan, the four guarded assignments, and the read of
\* s.users[i] for the value returned
UpdateStep(g) ==
    /\ \/ /\ procs[g].pc = "u1"
          /\ \E i \in {Find(Cur, procs[g].id)} :
               procs' = [procs EXCEPT ![g].pc = IF i = 0 THEN "unlock" ELSE "u2", ![g].i = i]
          /\ UNCHANGED heap
       \/ /\ procs[g].pc = "u2"
          /\ heap' = Assign(heap, users, procs[g].i, "fullname", ConcPartial)
          /\ procs' = [procs EXCEPT ![g].pc = "u3"]
       \/ /\ procs[g].pc = "u3"
          /\ heap' = Assign(heap, users, procs[g].i, "sex", ConcPartial)
          /\ procs' = [procs EXCEPT ![g].pc = "u4"]
       \/ /\ procs[g].pc = "u4"
          /\ heap' = Assign(heap, users, procs[g].i, "birthdate", ConcPartial)
          /\ procs' = [procs EXCEPT ![g].pc = "u5"]
       \/ /\ procs[g].pc = "u5"
          /\ heap' = Assign(heap, users, procs[g].i, "address", ConcPartial)
          /\ procs' = [procs EXCEPT ![g].pc = "u6"]
       \/ /\ procs[g].pc = "u6"
          /\ procs' = IF procs[g].i > users.len
                      THEN [procs EXCEPT ![g].pc = "panic"]
                      ELSE [procs EXCEPT ![g].pc = "unlock",
                                         ![g].p = heap[users.arr][procs[g].i]]
          /\ UNCHANGED heap
    /\ UNCHANGED <<users, nextID, mu, req, resp, issued, deleted, held, snapshot>>

\* one statement of Delete: the scan, the append that shifts the tail down, and the
\* assignment of its result to s.users
DeleteStep(g) ==
    /\ \/ /\ procs[g].pc = "d1"
          /\ \E i \in {Find(Cur, procs[g].id)} :
               procs' = [procs EXCEPT ![g].pc = IF i = 0 THEN "unlock" ELSE "d2", ![g].i = i]
          /\ UNCHANGED <<heap, users>>
       \/ /\ procs[g].pc = "d2"
          /\ LET i == procs[g].i IN
             IF i > users.len
             THEN /\ procs' = [procs EXCEPT ![g].pc = "panic"]
                  /\ UNCHANGED <<heap, users>>
             ELSE \E a \in {GoAppend(heap, Slice(users.arr, i - 1, users.cap),
                                     SubSeq(heap[users.arr], i + 1, users.len),
                                     ({users.arr} \ {0}) \cup LocalArrays(procs))} :
                     /\ heap' = a.heap
                     /\ procs' = [procs EXCEPT ![g].pc = "d3", ![g].out = a.slice]
                     /\ UNCHANGED users
       \/ /\ procs[g].pc = "d3"
          /\ users' = procs[g].out
          /\ procs' = [procs EXCEPT ![g].pc = "unlock", ![g].out = NilSlice]
          /\ heap' = Swept(heap, users', procs')
    /\ UNCHANGED <<nextID, mu, req, resp, issued, deleted, held, snapshot>>

\* the sequence after the operation of goroutine pr has acted on seq in one piece
Committed(seq, pr) ==
    CASE pr.op = "Create" -> Append(seq, pr.p)
      [] pr.op = "Update" ->
           [k \in 1..Len(seq) |->
              IF seq[k].ID = pr.id THEN Apply(seq[k], ConcPartial) ELSE seq[k]]
      [] pr.op = "Delete" -> SelectSeq(seq, LAMBDA r : r.ID # pr.id)
      [] OTHER -> seq

\* mutant: a lookup that found nothing returns without unlocking
Unlocked_OnlyWhenFound(m, pr) ==
    IF pr.op \in {"Get", "Update", "Delete"} /\ pr.i = 0 THEN m ELSE 0

\* the mutex after the deferred s.mu.Unlock() of goroutine pr
Unlocked(m, pr) == 0

\* the deferred s.mu.Unlock() and the return to the caller, the goroutine becoming
\* after; snapshot follows the operations in the order they return
Return(g, after) ==
    /\ procs[g].pc = "unlock"
    /\ mu' = Unlocked(mu, procs[g])
    /\ procs' = [procs EXCEPT ![g] = after]
    /\ issued' = IF procs[g].op = "Create" THEN Append(issued, procs[g].p.ID) ELSE issued
    /\ deleted' = IF procs[g].op = "Delete" /\ procs[g].i # 0
                  THEN deleted \cup {procs[g].id} ELSE deleted
    /\ snapshot' = Committed(snapshot, procs[g])
    /\ heap' = Swept(heap, users, procs')
    /\ UNCHANGED <<users, nextID, req, resp, held>>

Unlock(g) == Return(g, IdleProc)

NextConc ==
    \E g \in Procs :
       \/ Call(g)
       \/ Lock(g)
       \/ ListStep(g)
       \/ GetStep(g)
       \/ CreateStep(g)
       \/ UpdateStep(g)
       \/ DeleteStep(g)
       \/ Unlock(g)

SpecConc == InitConc /\ [][NextConc]_vars

(***************************************************************************)
(* Vocabulary of the properties.                                           *)
(***************************************************************************)
\* the store's sequence now
Us == Contents(heap, users)

Keys == {"fullname", "sex", "birthdate", "address"}

FieldOf(p, k) ==
    CASE k = "fullname" -> p.Fullname
      [] k = "sex" -> p.Sex
      [] k = "birthdate" -> p.Birthdate
      [] k = "address" -> p.Address

\* what the request body carries for key k; an absent key carries nothing
Sent(b, k) == IF k \in b.present THEN FieldOf(b.obj, k) ELSE Empty

Ids(us) == {us[i].ID : i \in 1..Len(us)}

ById(us, id) == us[CHOOSE i \in 1..Len(us) : us[i].ID = id]

Without(us, id) == SelectSeq(us, LAMBDA p : p.ID # id)

\* this step serves a request (req' is the request, resp' the response)
Served == req = NoRequest /\ req' # NoRequest

ToRouter == req'.method # "OPTIONS"

OnItem == Served /\ ToRouter /\ req'.route = "/patients/"

OnCollection == Served /\ ToRouter /\ req'.route = "/patients"

IdStr == TrimSuffixSlash(req.rest)

\* the id segment is a base-10 64-bit integer
WellFormed(s) ==
    LET body == IF s # Empty /\ Head(s) \in {"+", "-"} THEN Tail(s) ELSE s
    IN  /\ body # Empty
        /\ \A i \in 1..Len(body) : body[i] \in {Digits[d] : d \in 1..10}
        /\ InRange(StripZeros(body),
                   IF Head(s) = "-" THEN MinInt64Digits ELSE MaxInt64Digits)

IdOf(s) == ParseInt(s).val

IsError(w, status, msg) ==
    w.status = status /\ w.kind = "error" /\ w.code = status /\ w.error = msg

StoreUnchanged == heap' = heap /\ users' = users /\ nextID' = nextID

(***************************************************************************)
(* C1: the k-th Create overall, seeds included, is assigned id k whatever  *)
(* id the caller supplied: ids are 1, 2, 3, ... in creation order with no  *)
(* repeat and no gap-filling after deletions.                              *)
(***************************************************************************)
C1_IdsInCreationOrder == \A k \in 1..Len(issued) : issued[k] = k

\* a record was deleted, then a POST carrying "id": 7 created the third record
C1_Witness ==
    /\ req.method = "POST" /\ "id" \in req.body.present /\ req.body.obj.ID = 7
    /\ resp.status = 201 /\ resp.data[1].ID = 3
    /\ Len(issued) = 3 /\ Len(Us) = 2 /\ Us[2].ID = 3

(***************************************************************************)
(* C4: an accepted PUT /patients/{id} keeps each field that is absent or   *)
(* sent as the empty string, sets each field sent non-empty to the value   *)
(* sent, and leaves every other record unchanged.                          *)
(***************************************************************************)
C4_PartialUpdate ==
    [][(OnItem /\ req'.method = "PUT" /\ resp'.status = 200) =>
         LET id == IdOf(IdStr')
             b == req'.body
         IN  /\ id \in Ids(Us)
             /\ Len(Us') = Len(Us)
             /\ \A i \in 1..Len(Us) :
                  IF Us[i].ID # id THEN Us'[i] = Us[i]
                  ELSE /\ Us'[i].ID = id
                       /\ \A k \in Keys :
                            FieldOf(Us'[i], k) =
                               IF Sent(b, k) = Empty THEN FieldOf(Us[i], k) ELSE Sent(b, k)]_vars

\* PUT /patients/1 {"id": 9, "fullname": "x"} on the seeded Alice, Bob still stored
C4_Witness ==
    /\ req.method = "PUT" /\ req.rest = <<"1">> /\ req.body.present = {"id", "fullname"}
    /\ resp.status = 200
    /\ Len(Us) >= 2 /\ Us[1].ID = 1 /\ Us[1].Fullname = X
    /\ Us[1].Address = Alice.Address /\ Us[2].ID = 2

(***************************************************************************)
(* C5: Update overwrites a stored field only if the field sent is          *)
(* non-empty after trimming whitespace; a whitespace-only field sent       *)
(* together with a non-empty one leaves the stored value untouched.        *)
(***************************************************************************)
C5_OnlyNonBlankOverwrites ==
    [][(OnItem /\ req'.method = "PUT" /\ resp'.status = 200) =>
         LET id == IdOf(IdStr')
             b == req'.body
         IN  \A k \in Keys :
                TrimSpace(Sent(b, k)) = Empty =>
                   FieldOf(ById(Us', id), k) = FieldOf(ById(Us, id), k)]_vars

(***************************************************************************)
(* C6: a PUT /patients/{id} with a well-formed id whose body parses and    *)
(* whose four fields are all empty or absent after trimming is answered    *)
(* 400 "at least one field required to update" and changes nothing.        *)
(***************************************************************************)
C6_EmptyUpdateRefused ==
    [][(/\ OnItem /\ req'.method = "PUT" /\ WellFormed(IdStr')
        /\ req'.body.valid
        /\ \A k \in Keys : TrimSpace(Sent(req'.body, k)) = Empty) =>
         /\ IsError(resp', 400, "at least one field required to update")
         /\ StoreUnchanged]_vars

\* PUT /patients/1 with fullname, birthdate and address a single space and sex ""
C6_Witness ==
    /\ req.method = "PUT" /\ req.rest = <<"1">> /\ req.body.valid
    /\ req.body.obj.Fullname = SP /\ req.body.present = Keys
    /\ resp.status = 400 /\ 1 \in Ids(Us)

(***************************************************************************)
(* C7: Delete(id) of a stored id removes exactly that record and returns   *)
(* true: the others keep their values and relative order, the next-id      *)
(* counter is unchanged, and a Get(id) afterwards reports not-found.       *)
(***************************************************************************)
C7_DeleteRemovesOne ==
    [][(OnItem /\ req'.method = "DELETE" /\ WellFormed(IdStr')
        /\ IdOf(IdStr') \in Ids(Us)) =>
         /\ resp'.status = 204 /\ resp'.kind = "none"
         /\ Us' = Without(Us, IdOf(IdStr'))
         /\ Len(Us') = Len(Us) - 1
         /\ nextID' = nextID
         /\ ~Get(Cur', IdOf(IdStr')).ok]_vars

\* DELETE /patients/1 answered 204 with records 2 and 3 left, in that order
C7_Witness ==
    /\ req.method = "DELETE" /\ req.rest = <<"1">> /\ resp.status = 204
    /\ Len(Us) = 2 /\ Us[1].ID = 2 /\ Us[2].ID = 3

(***************************************************************************)
(* C8: every request reaching the router on /patients/{id} whose id        *)
(* segment is empty or no base-10 64-bit integer is answered 400 "invalid  *)
(* id", whatever its method and body, and the store is not changed.        *)
(***************************************************************************)
C8_InvalidId ==
    [][(OnItem /\ ~WellFormed(IdStr')) =>
         IsError(resp', 400, "invalid id") /\ StoreUnchanged]_vars

\* PATCH /patients/abc, and a GET whose id is 2^63, both answered 400
C8_Witness ==
    /\ resp.status = 400 /\ resp.error = "invalid id"
    /\ \/ req.method = "PATCH" /\ req.rest = <<"a", "b", "c">>
       \/ req.method = "GET" /\ req.rest = MinInt64Digits

(***************************************************************************)
(* C9: every GET, PUT or DELETE on /patients/{id} whose id is well-formed  *)
(* but matches no stored record is answered 404 "patient not found".       *)
(***************************************************************************)
C9_NotFound ==
    [][(/\ OnItem /\ req'.method \in {"GET", "PUT", "DELETE"}
        /\ WellFormed(IdStr') /\ IdOf(IdStr') \notin Ids(Us)) =>
         IsError(resp', 404, "patient not found")]_vars

\* C9 as amended: every GET or DELETE, and every PUT whose body parses and carries at
\* least one field that is non-empty after trimming, on a well-formed id that matches
\* no stored record is answered 404 "patient not found", and the store is unchanged.
C9_NotFoundAmended ==
    [][(/\ OnItem /\ WellFormed(IdStr') /\ IdOf(IdStr') \notin Ids(Us)
        /\ \/ req'.method \in {"GET", "DELETE"}
           \/ /\ req'.method = "PUT" /\ req'.body.valid
              /\ \E k \in Keys : TrimSpace(Sent(req'.body, k)) # Empty) =>
         IsError(resp', 404, "patient not found") /\ StoreUnchanged]_vars

\* a PUT with a fullname on an id that was deleted, answered 404
C9_Witness ==
    /\ req.method = "PUT" /\ req.rest = <<"2">> /\ Sent(req.body, "fullname") = X
    /\ 2 \notin Ids(Us) /\ resp.status = 404 /\ resp.error = "patient not found"

(***************************************************************************)
(* C10: a POST /patients whose body parses is answered 400 "fullname, sex, *)
(* birthdate and address are required" exactly when one of the four fields *)
(* is empty after trimming, and then adds no record and consumes no id;    *)
(* otherwise it is answered 201 with the stored record, whose id is        *)
(* positive and was never issued before.                                   *)
(***************************************************************************)
C10_CreateValidation ==
    [][(OnCollection /\ req'.method = "POST" /\ req'.body.valid) =>
         IF \E k \in Keys : TrimSpace(Sent(req'.body, k)) = Empty
         THEN /\ IsError(resp', 400, "fullname, sex, birthdate and address are required")
              /\ StoreUnchanged
         ELSE /\ resp'.status = 201 /\ resp'.kind = "response" /\ resp'.code = 201
              /\ resp'.dkind = "patient"
              /\ Us' = Us \o resp'.data
              /\ resp'.data[1].ID > 0
              /\ \A k \in 1..Len(issued) : issued[k] # resp'.data[1].ID
              /\ \A k \in Keys : FieldOf(resp'.data[1], k) = Sent(req'.body, k)]_vars

\* a refused POST whose birthdate is one space, after an accepted one has been stored
C10_Witness ==
    /\ req.method = "POST" /\ req.body.valid /\ Sent(req.body, "birthdate") = SP
    /\ resp.status = 400 /\ Len(issued) = 3 /\ nextID = 4

(***************************************************************************)
(* C2: when Create calls run concurrently, in any interleaving of their    *)
(* statements and with no Delete called, no two stored records share an id *)
(* and, once all calls have returned, the store holds the initial records  *)
(* plus one record per Create that returned.                               *)
(***************************************************************************)
AllReturned == \A g \in Procs : procs[g].pc = "idle"

NoDeleteCalled == deleted = {} /\ \A g \in Procs : procs[g].op # "Delete"

CreatesReturned == Len(issued) - Len(Users(Seeded))

C2_ConcurrentCreates ==
    NoDeleteCalled =>
       /\ \A i, j \in 1..Len(Us) : i # j => Us[i].ID # Us[j].ID
       /\ AllReturned => Len(Us) = Len(Users(Seeded)) + CreatesReturned

\* goroutine 1 has appended record 3 and still holds the lock while goroutine 2, which
\* called Create too, waits for it
C2_Witness ==
    /\ NoDeleteCalled
    /\ procs[1].op = "Create" /\ procs[1].pc = "unlock"
    /\ procs[2].op = "Create" /\ procs[2].pc = "lock"
    /\ Len(Us) = 3 /\ Us[3].ID = 3

(***************************************************************************)
(* C3: a sequence returned by List is a copy: whatever Create, Update and  *)
(* Delete do to the store afterwards, the returned sequence keeps the      *)
(* records, field values and order it had when List returned.              *)
(***************************************************************************)
C3_ListIsACopy == Contents(heap, held) = snapshot

\* a kept List result of Alice and Bob, after Alice was updated, Bob deleted and a
\* third record created
C3_Witness ==
    /\ Len(snapshot) = 2 /\ snapshot[1].Fullname = Alice.Fullname /\ snapshot[2].ID = 2
    /\ Len(Us) = 2 /\ Us[1].Fullname = X /\ Us[2].ID = 3

(***************************************************************************)
(* C11: every OPTIONS request, to a defined route or not, is answered by   *)
(* the middleware with 204, no body and the cross-origin headers, without  *)
(* reaching the router; no store operation runs, the store is unchanged.   *)
(***************************************************************************)
C11_Preflight ==
    [][(Served /\ req'.method = "OPTIONS") =>
         /\ resp'.status = 204 /\ resp'.kind = "none" /\ resp'.ctype = ""
         /\ resp'.cors
         /\ StoreUnchanged /\ issued' = issued /\ deleted' = deleted]_vars

\* OPTIONS /patients/abc, a path no handler accepts, answered 204
C11_Witness ==
    /\ req.method = "OPTIONS" /\ resp.status = 204 /\ resp.cors
    /\ req.route = "/patients/" /\ req.rest = <<"a", "b", "c">>

(***************************************************************************)
(* C12: in every response that carries a JSON envelope, success or error,  *)
(* the envelope's code equals the HTTP status of the response.             *)
(***************************************************************************)
C12_CodeMirrorsStatus ==
    resp.kind \in {"response", "error"} => resp.code = resp.status

\* a 201 envelope after a POST
C12_Witness ==
    /\ req.method = "POST" /\ resp.kind = "response" /\ resp.status = 201 /\ resp.code = 201

(***************************************************************************)
(* The error-building rule on its own: newResponseError followed by        *)
(* writeError, applied to a code and a message.  Here req holds the        *)
(* arguments of the call and resp the response written.  The codes are 0   *)
(* (unset) and the codes WriteHeader accepts, from 100 up.                 *)
(***************************************************************************)
\* The largest status code the rule is applied to.
MaxErrCode == 599

ErrCodes == {0} \cup 100..MaxErrCode

ErrMsgs ==
    {"", "invalid JSON body", "invalid id", "patient not found", "method not allowed",
     "at least one field required to update", "openapi spec not found"}

InitErr == Init

CallError(code, msg) ==
    /\ req = NoRequest
    /\ req' = [code |-> code, msg |-> msg]
    /\ resp' = writeError(newResponseError(code, msg))
    /\ UNCHANGED <<heap, users, nextID, mu, issued, deleted, held, snapshot, procs>>

ErrorWritten ==
    /\ req # NoRequest
    /\ req' = NoRequest
    /\ resp' = NoWire
    /\ UNCHANGED <<heap, users, nextID, mu, issued, deleted, held, snapshot, procs>>

NextErr ==
    \/ \E code \in ErrCodes, msg \in ErrMsgs : CallError(code, msg)
    \/ ErrorWritten

SpecErr == InitErr /\ [][NextErr]_vars

(***************************************************************************)
(* C13: newResponseError followed by writeError yields, for code 0, an     *)
(* envelope and status line with code 500 and label "Internal Server       *)
(* Error"; for a non-zero code with a standard reason phrase that phrase   *)
(* as label; for a non-zero code without one the label "Error".            *)
(***************************************************************************)
C13_ErrorRule ==
    req # NoRequest =>
        /\ resp.kind = "error" /\ resp.error = req.msg /\ resp.code = resp.status
        /\ req.code = 0 =>
              resp.status = 500 /\ resp.label = "Internal Server Error"
        /\ req.code # 0 =>
              /\ resp.status = req.code
              /\ resp.label = IF StatusText(req.code) = "" THEN "Error" ELSE StatusText(req.code)

(***************************************************************************)
(* C14: Update never changes a record's id, also when the partial record   *)
(* sent carries another id, and the record keeps its position: a PUT       *)
(* leaves the sequence of ids as it was, and an accepted one returns the   *)
(* record under the id of the path.                                        *)
(***************************************************************************)
C14_UpdateKeepsId ==
    [][(OnItem /\ req'.method = "PUT") =>
         /\ Len(Us') = Len(Us)
         /\ \A i \in 1..Len(Us) : Us'[i].ID = Us[i].ID
         /\ nextID' = nextID
         /\ resp'.status = 200 =>
               /\ resp'.data[1].ID = IdOf(IdStr')
               /\ \E i \in 1..Len(Us) :
                    Us[i].ID = IdOf(IdStr') /\ Us'[i] = resp'.data[1]]_vars

\* PUT /patients/2 {"id": 9, "fullname": "x"}: Bob, second in the store, is still record 2
C14_Witness ==
    /\ req.method = "PUT" /\ req.rest = <<"2">>
    /\ "id" \in req.body.present /\ req.body.obj.ID = 9
    /\ resp.status = 200 /\ resp.data[1].ID = 2 /\ resp.data[1].Fullname = X
    /\ Len(Us) >= 2 /\ Us[2] = resp.data[1]

(***************************************************************************)
(* C15: once Delete(id) has returned true, id never denotes a stored       *)
(* record again: Get, Update and Delete on it report not-found ever after, *)
(* since ids come from a counter that only grows and is already past id.   *)
(***************************************************************************)
C15_DeletedStaysGone ==
    \A id \in deleted :
        /\ id < nextID
        /\ id \notin Ids(Us)
        /\ ~Get(Cur, id).ok
        /\ ~Update(Cur, id, AllX).ok
        /\ ~Delete(Cur, id, {}).ok

\* GET /patients/2 answered 404 after 2 was deleted and a later record was created
C15_Witness ==
    /\ 2 \in deleted /\ 3 \in Ids(Us)
    /\ req.method = "GET" /\ req.rest = <<"2">> /\ resp.status = 404

(***************************************************************************)
(* C19: between operations the ids in the stored sequence are strictly     *)
(* increasing, each at least 1 and below nextID; so List is in ascending   *)
(* id order and a scan for an id matches at most one record.               *)
(***************************************************************************)
C19_IdsIncreasing ==
    /\ \A i \in 1..Len(Us) : Us[i].ID >= 1 /\ Us[i].ID < nextID
    /\ \A i, j \in 1..Len(Us) : i < j => Us[i].ID < Us[j].ID
    /\ \A id \in 1..nextID : Cardinality({i \in 1..Len(Us) : Us[i].ID = id}) <= 1
    /\ LET l == List(Cur, {})
           out == Contents(l.store.heap, l.resp.Data)
       IN  \A i, j \in 1..Len(out) : i < j => out[i].ID < out[j].ID

\* records 1 and 3 stored in that order after 2 was deleted, the counter at 4
C19_Witness ==
    /\ Len(Us) = 2 /\ Us[1].ID = 1 /\ Us[2].ID = 3 /\ nextID = 4

(***************************************************************************)
(* C16: at most one store operation is inside its critical section at any  *)
(* time, and the operation inside holds the mutex from its first access to *)
(* the store until it returns.                                             *)
(***************************************************************************)
InCriticalSection(g) == procs[g].pc \notin {"idle", "lock"}

C16_MutualExclusion ==
    /\ \A g, h \in Procs : (InCriticalSection(g) /\ InCriticalSection(h)) => g = h
    /\ \A g \in Procs : InCriticalSection(g) <=> mu = g

\* goroutine 1 in the middle of Update while goroutine 2 waits for the mutex to delete
C16_Witness ==
    /\ procs[1].op = "Update" /\ procs[1].pc = "u3" /\ mu = 1
    /\ procs[2].op = "Delete" /\ procs[2].pc = "lock"

(***************************************************************************)
(* C18: the slice List returns equals the whole stored sequence at one     *)
(* instant between its call and its return, namely the sequence left by    *)
(* the operations that have returned so far, each applied in one piece; it *)
(* never shows a partly applied Update or Delete.                          *)
(***************************************************************************)
C18_ListSnapshot ==
    \A g \in Procs :
        (procs[g].op = "List" /\ procs[g].pc = "unlock") =>
            Contents(heap, procs[g].out) = snapshot

\* List about to return the sequence an Update and a Delete have left, while another
\* Update waits
C18_Witness ==
    /\ procs[1].op = "List" /\ procs[1].pc = "unlock"
    /\ procs[2].op = "Update" /\ procs[2].pc = "lock"
    /\ Len(snapshot) = 1 /\ snapshot[1].ID = 2 /\ snapshot[1].Fullname = X
    /\ Contents(heap, procs[1].out) = snapshot

(***************************************************************************)
(* The race of one Update(id, partial) with one Delete(id) on an id that   *)
(* is stored: both have been called and neither has the mutex yet.  The    *)
(* goroutines keep their results after returning (pc "done").              *)
(***************************************************************************)
RaceStores == {Seeded, Create(Seeded, AllX, {}).store}

InitRace ==
    \E S \in RaceStores, id \in ConcIds, g, h \in Procs :
       /\ g # h
       /\ heap = Settled(S, {}).heap
       /\ users = S.users
       /\ nextID = S.nextID
       /\ mu = 0
       /\ req = NoRequest
       /\ resp = NoWire
       /\ issued = [k \in 1..(S.nextID - 1) |-> k]
       /\ deleted = {}
       /\ held = NilSlice
       /\ snapshot = Users(S)
       /\ procs = [x \in Procs |->
                     IF x = g THEN Proc("lock", "Update", id, 0, ZeroPatient, NilSlice)
                     ELSE IF x = h THEN Proc("lock", "Delete", id, 0, ZeroPatient, NilSlice)
                     ELSE IdleProc]

\* the deferred Unlock and the return, the caller keeping what was returned
Done(g) == Return(g, [procs[g] EXCEPT !.pc = "done"])

NextRace ==
    \E g \in Procs :
       \/ Lock(g)
       \/ UpdateStep(g)
       \/ DeleteStep(g)
       \/ Done(g)

SpecRace == InitRace /\ [][NextRace]_vars

(***************************************************************************)
(* C17: a concurrent Update(id, partial) and Delete(id) on a stored id end *)
(* as one of the two serial orders: Update returns found with the updated  *)
(* record and Delete then removes it, or Delete removes it and Update      *)
(* returns not-found.  Either way Delete returns true, the record is       *)
(* absent at the end, and no other record was modified.                    *)
(***************************************************************************)
RaceRecords == Users(Create(Seeded, AllX, {}).store)

C17_UpdateDeleteRace ==
    /\ \A g \in Procs : procs[g].pc # "panic"
    /\ (\A g \in Procs : procs[g].pc \in {"idle", "done"}) =>
         \A g, h \in Procs :
            (procs[g].op = "Update" /\ procs[h].op = "Delete") =>
               LET id == procs[h].id
                   orig == SubSeq(RaceRecords, 1, nextID - 1)
               IN  /\ procs[h].i # 0
                   /\ id \notin Ids(Us)
                   /\ Us = Without(orig, id)
                   /\ \/ procs[g].i = 0
                      \/ /\ procs[g].i # 0
                         /\ procs[g].p = Apply(ById(orig, id), ConcPartial)

\* both returned, Update(1) having found and updated Alice before Delete(1) removed
\* her from a store of three
C17_Witness ==
    /\ procs[1] = Proc("done", "Update", 1, 1, Apply(RaceRecords[1], ConcPartial), NilSlice)
    /\ procs[2].pc = "done" /\ procs[2].op = "Delete" /\ procs[2].i = 1
    /\ Len(Us) = 2 /\ Us[1] = RaceRecords[2] /\ Us[2] = RaceRecords[3]

(***************************************************************************)
(* Fair scheduling: a goroutine that can execute its next statement        *)
(* eventually does (the scheduler preempts), and a goroutine blocked in    *)
(* Lock eventually gets a mutex that is released again and again           *)
(* (sync.Mutex hands over to the longest waiter once it starves).          *)
(***************************************************************************)
Run(g) ==
    \/ ListStep(g)
    \/ GetStep(g)
    \/ CreateStep(g)
    \/ UpdateStep(g)
    \/ DeleteStep(g)
    \/ Unlock(g)

Fairness == \A g \in Procs : WF_vars(Run(g)) /\ SF_vars(Lock(g))

SpecConcFair == InitConc /\ [][NextConc]_vars /\ Fairness

(***************************************************************************)
(* C20: the store never deadlocks: every operation unlocks on every return *)
(* path, so under fair scheduling every operation that was called          *)
(* eventually acquires the mutex and returns.                              *)
(***************************************************************************)
C20_EveryCallReturns ==
    \A g \in Procs : (procs[g].pc # "idle") ~> (procs[g].pc = "idle")

\* goroutine 2 blocked in Lock while goroutine 1 is about to return not-found from a
\* Delete of an id already deleted
C20_Witness ==
    /\ procs[1].op = "Delete" /\ procs[1].pc = "unlock" /\ procs[1].i = 0
    /\ procs[1].id \in deleted /\ mu = 1
    /\ procs[2].pc = "lock"

====
